---------------------------- MODULE Spec2Model ----------------------------
(***************************************************************************)
(* AI Trip Planner: the Streamlit front-end (src/streamlit_app.py) and the *)
(* FastAPI backend (src/main.py).                                          *)
(*                                                                         *)
(* Texts are TLA+ strings; a character is a string of length 1.  TLC       *)
(* evaluates Len, SubSeq and \o on strings.                                *)
(***************************************************************************)
EXTENDS Integers, Sequences, FiniteSets, TLC

VARIABLES
    question,       \* main.py: the text handed to determine_query_type
    query_type,     \* main.py: what determine_query_type returned for it
    currency,       \* st.session_state.currency
    exchange_rates, \* st.session_state.exchange_rates
    text,           \* streamlit_app.py: the text handed to extract_price_ranges
                    \* (to convert_price when it is called on its own)
    annotated,      \* <<>> before the call, <<the text it returned>> after it
                    \* (one text per cleaning for clean_content_from_markdown)
    fetches,        \* the GETs of EXCHANGE_API_URL that call made
    rates_calls,    \* streamlit_app.py: the calls of get_exchange_rates made one
                    \* after another, with what each returned
    current_view,   \* st.session_state.current_view
    travel_data,    \* st.session_state.travel_data: <<>> is None, <<t>> the text t
    user_query,     \* st.session_state.user_query
    loading,        \* st.session_state.loading
    call,           \* the make_api_request call of the current script run
    react_app,      \* main.py: _react_app, "None" or the agent
    response        \* main.py: the last POST /query handled when the backend
                    \* is taken on its own, with what answered it

session == <<current_view, travel_data, user_query, loading, call, react_app>>

vars == <<question, query_type, currency, exchange_rates, text, annotated,
          fetches, rates_calls,
          current_view, travel_data, user_query, loading, call, react_app,
          response>>

\* call is the make_api_request call of the current script run: NoCall in a run
\* that makes none.
NoCall == [made |-> FALSE]

\* No POST /query handled yet.
NoResponse == [n |-> 0]

\* The session after init_session_state, the backend before any request, and
\* nothing asked of the remote source yet.
InitSession ==
    /\ current_view = "main"
    /\ travel_data = <<>>
    /\ user_query = ""
    /\ loading = FALSE
    /\ call = NoCall
    /\ react_app = "None"
    /\ response = NoResponse
    /\ fetches = 0
    /\ rates_calls = <<>>

(***************************************************************************)
(* Strings.                                                                *)
(***************************************************************************)
Char(s, i) == SubSeq(s, i, i)

\* Python's `k in s` for strings.
Contains(s, k) ==
    \E i \in 1..(Len(s) - Len(k) + 1) : SubSeq(s, i, i + Len(k) - 1) = k

UpperLetters == "ABCDEFGHIJKLMNOPQRSTUVWXYZ"
LowerLetters == "abcdefghijklmnopqrstuvwxyz"

LowerChar(c) ==
    IF \E i \in 1..26 : Char(UpperLetters, i) = c
    THEN Char(LowerLetters, CHOOSE i \in 1..26 : Char(UpperLetters, i) = c)
    ELSE c

\* str.lower() on the letters A-Z; every other character is kept.  The text is
\* halved so that the depth of the evaluation stays logarithmic.
RECURSIVE Lower(_)
Lower(s) ==
    IF Len(s) = 0 THEN ""
    ELSE IF Len(s) = 1 THEN LowerChar(s)
    ELSE LET half == Len(s) \div 2
         IN  Lower(SubSeq(s, 1, half)) \o Lower(SubSeq(s, half + 1, Len(s)))

\* The strings made of at most n pieces of the set frags.
RECURSIVE Concats(_, _)
Concats(frags, n) ==
    IF n = 0 THEN {""}
    ELSE LET shorter == Concats(frags, n - 1)
         IN  shorter \cup {s \o f : s \in shorter, f \in frags}

(***************************************************************************)
(* main.py: determine_query_type.                                          *)
(***************************************************************************)
HotelKeywords       == {"hotel", "accommodation", "stay", "lodge"}
CostKeywords        == {"cost", "budget", "price", "expense", "money"}
WeatherKeywords     == {"weather", "climate", "temperature", "season"}
AlternativeKeywords == {"alternative", "option", "different", "other"}

QueryTypes ==
    {"hotels", "cost_breakdown", "weather", "alternatives", "complete_itinerary"}

\* any(keyword in question_lower for keyword in [...])
AnyKeyword(question_lower, keywords) ==
    \E keyword \in keywords : Contains(question_lower, keyword)

\* A slip in the order of the branches: the cost set tested before the hotel set.
determine_query_type_CostFirst(q) ==
    LET question_lower == Lower(q)
    IN  IF AnyKeyword(question_lower, CostKeywords) THEN "cost_breakdown"
        ELSE IF AnyKeyword(question_lower, HotelKeywords) THEN "hotels"
        ELSE IF AnyKeyword(question_lower, WeatherKeywords) THEN "weather"
        ELSE IF AnyKeyword(question_lower, AlternativeKeywords) THEN "alternatives"
        ELSE "complete_itinerary"

determine_query_type(q) ==
    LET question_lower == Lower(q)
    IN  IF AnyKeyword(question_lower, HotelKeywords) THEN "hotels"
        ELSE IF AnyKeyword(question_lower, CostKeywords) THEN "cost_breakdown"
        ELSE IF AnyKeyword(question_lower, WeatherKeywords) THEN "weather"
        ELSE IF AnyKeyword(question_lower, AlternativeKeywords) THEN "alternatives"
        ELSE "complete_itinerary"

(***************************************************************************)
(* streamlit_app.py: the exchange-rate table.  A rate is kept in           *)
(* hundredths (83.0 is 8300) and an amount of money in cents.              *)
(***************************************************************************)
EmptyTable == [c \in {} |-> 0]

FallbackRates ==
    [USD |-> 100, INR |-> 8300, EUR |-> 85, GBP |-> 73,
     AUD |-> 135, CAD |-> 125, JPY |-> 11000]

\* st.session_state.exchange_rates["USD"] = 1.0
WithUSD(rates) ==
    [c \in DOMAIN rates \cup {"USD"} |-> IF c = "USD" THEN 100 ELSE rates[c]]

\* What one GET of EXCHANGE_API_URL can do: answer 200 with a table, answer
\* another status, or fail (no connection, a timeout, a body that is no JSON).
RemoteTables ==
    {[USD |-> 101, INR |-> 8400, CAD |-> 136], [INR |-> 8400, EUR |-> 90]}

FetchOutcomes ==
    {[kind |-> "ok", rates |-> t] : t \in RemoteTables}
        \cup {[kind |-> "status", rates |-> EmptyTable],
              [kind |-> "exception", rates |-> EmptyTable]}

\* As get_exchange_rates, without the test for a table already held.
get_exchange_rates_NoCache(rates, outcome) ==
    IF outcome.kind = "ok"
    THEN [ret |-> WithUSD(outcome.rates), rates |-> WithUSD(outcome.rates),
          fetched |-> TRUE]
    ELSE IF outcome.kind = "status"
    THEN [ret |-> rates, rates |-> rates, fetched |-> TRUE]
    ELSE [ret |-> FallbackRates, rates |-> rates, fetched |-> TRUE]

\* One call of get_exchange_rates on the session's table: the table it returns,
\* the session's table after it, and whether it went to the remote source.
get_exchange_rates(rates, outcome) ==
    IF DOMAIN rates # {}
    THEN [ret |-> rates, rates |-> rates, fetched |-> FALSE]
    ELSE IF outcome.kind = "ok"
    THEN [ret |-> WithUSD(outcome.rates), rates |-> WithUSD(outcome.rates),
          fetched |-> TRUE]
    ELSE IF outcome.kind = "status"
    THEN [ret |-> rates, rates |-> rates, fetched |-> TRUE]
    ELSE [ret |-> FallbackRates, rates |-> rates, fetched |-> TRUE]

(***************************************************************************)
(* Numbers as text.                                                        *)
(***************************************************************************)
DigitChars == "0123456789"
Digits == {Char(DigitChars, i) : i \in 1..10}
DigitValue(c) == (CHOOSE i \in 1..10 : Char(DigitChars, i) = c) - 1
DigitStr(d) == Char(DigitChars, d + 1)

\* \s
Whitespace == {" ", "\t", "\n", "\r"}

\* The character at i, "" outside the text.
At(s, i) == IF 1 <= i /\ i <= Len(s) THEN SubSeq(s, i, i) ELSE ""
IsDigitAt(s, i) == At(s, i) \in Digits

\* ---- Amounts of money are decimal digit strings of cents, so that no
\* ---- amount of the text is too large for the arithmetic.

RECURSIVE IntToStr(_)
IntToStr(n) == IF n < 10 THEN DigitStr(n) ELSE IntToStr(n \div 10) \o DigitStr(n % 10)

RECURSIVE StripCommas(_)
StripCommas(s) ==
    IF Len(s) = 0 THEN ""
    ELSE IF Char(s, 1) = "," THEN StripCommas(SubSeq(s, 2, Len(s)))
    ELSE Char(s, 1) \o StripCommas(SubSeq(s, 2, Len(s)))

RECURSIVE StripZeros(_)
StripZeros(ds) ==
    IF Len(ds) > 1 /\ Char(ds, 1) = "0" THEN StripZeros(SubSeq(ds, 2, Len(ds))) ELSE ds

\* The digit string ds times the integer k, carry added.
RECURSIVE MulDigits(_, _, _)
MulDigits(ds, k, carry) ==
    IF Len(ds) = 0 THEN (IF carry = 0 THEN "" ELSE IntToStr(carry))
    ELSE LET v == DigitValue(Char(ds, Len(ds))) * k + carry
         IN  MulDigits(SubSeq(ds, 1, Len(ds) - 1), k, v \div 10) \o DigitStr(v % 10)

\* The digit string ds plus one.
RECURSIVE IncDigits(_)
IncDigits(ds) ==
    IF Len(ds) = 0 THEN "1"
    ELSE IF Char(ds, Len(ds)) = "9" THEN IncDigits(SubSeq(ds, 1, Len(ds) - 1)) \o "0"
    ELSE SubSeq(ds, 1, Len(ds) - 1) \o DigitStr(DigitValue(Char(ds, Len(ds))) + 1)

\* As RoundHundredth, cutting the fraction off.
RoundHundredth_Truncate(ds) ==
    LET p == IF Len(ds) < 3 THEN SubSeq("000", 1, 3 - Len(ds)) \o ds ELSE ds
    IN  SubSeq(p, 1, Len(p) - 2)

\* ds / 100 rounded to an integer, a tie to the even one: what the float product
\* formatted with two decimals shows when the tie is exact in binary.
RoundHundredth(ds) ==
    LET p == IF Len(ds) < 3 THEN SubSeq("000", 1, 3 - Len(ds)) \o ds ELSE ds
        q == SubSeq(p, 1, Len(p) - 2)
        r == 10 * DigitValue(Char(p, Len(p) - 1)) + DigitValue(Char(p, Len(p)))
        odd == DigitValue(Char(q, Len(q))) % 2 = 1
    IN  IF r > 50 \/ (r = 50 /\ odd) THEN IncDigits(q) ELSE q

RECURSIVE Grouped(_)
Grouped(ds) ==
    IF Len(ds) <= 3 THEN ds
    ELSE Grouped(SubSeq(ds, 1, Len(ds) - 3)) \o "," \o SubSeq(ds, Len(ds) - 2, Len(ds))

\* f"{x:,.2f}" of an amount given in cents.
FormatMoney(cents) ==
    LET z == StripZeros(cents)
        p == IF Len(z) < 3 THEN SubSeq("000", 1, 3 - Len(z)) \o z ELSE z
    IN  Grouped(SubSeq(p, 1, Len(p) - 2)) \o "." \o SubSeq(p, Len(p) - 1, Len(p))

(***************************************************************************)
(* streamlit_app.py: convert_price.                                        *)
(***************************************************************************)
\* The currency symbols, in ASCII: {INR} stands for the rupee sign, {EUR} for
\* the euro sign, {GBP} for the pound sign and {JPY} for the yen sign.
currency_symbols ==
    [INR |-> "{INR}", EUR |-> "{EUR}", GBP |-> "{GBP}", JPY |-> "{JPY}",
     AUD |-> "A$", CAD |-> "C$"]

\* re.search(r'[\d,]+(?:\.\d+)?', s): <<first, last>> of the match, <<0, 0>> when
\* there is none.
RECURSIVE NumberRunEnd(_, _)
NumberRunEnd(s, i) ==
    IF At(s, i + 1) \in Digits \cup {","} THEN NumberRunEnd(s, i + 1) ELSE i

RECURSIVE DigitsEnd(_, _)
DigitsEnd(s, i) == IF IsDigitAt(s, i + 1) THEN DigitsEnd(s, i + 1) ELSE i

SearchNumber(s) ==
    IF \E i \in 1..Len(s) : At(s, i) \in Digits \cup {","}
    THEN LET first == CHOOSE i \in 1..Len(s) :
                          /\ At(s, i) \in Digits \cup {","}
                          /\ \A j \in 1..(i - 1) : At(s, j) \notin Digits \cup {","}
             run == NumberRunEnd(s, first)
         IN  IF At(s, run + 1) = "." /\ IsDigitAt(s, run + 2)
             THEN <<first, DigitsEnd(s, run + 2)>>
             ELSE <<first, run>>
    ELSE <<0, 0>>

\* float(m) in cents of a matched number m: digits and commas, then at most a
\* point and decimals (the callers' amounts have none or two).
ParseCents(m) ==
    LET point == IF \E i \in 1..Len(m) : Char(m, i) = "."
                 THEN CHOOSE i \in 1..Len(m) : Char(m, i) = "."
                 ELSE Len(m) + 1
        whole == StripCommas(SubSeq(m, 1, point - 1))
        d1 == IF IsDigitAt(m, point + 1) THEN At(m, point + 1) ELSE "0"
        d2 == IF IsDigitAt(m, point + 2) THEN At(m, point + 2) ELSE "0"
    IN  StripZeros(whole \o d1 \o d2)

\* float() raises ValueError on a match that holds no digit.
IsNumber(m) == \E i \in 1..Len(m) : IsDigitAt(m, i)

\* The remote answer the n+1st fetch of a call gets.
FetchOutcome(script, n) == script[IF n < Len(script) THEN n + 1 ELSE Len(script)]

\* As convert_price, giving the number found in amount_str when the table does
\* not hold the target currency.
convert_price_MatchForUnknown(amount_str, target_currency, st, script) ==
    LET price_match == SearchNumber(amount_str)
        matched == SubSeq(amount_str, price_match[1], price_match[2])
        got == get_exchange_rates(st.rates, FetchOutcome(script, st.n))
        after == [rates |-> got.rates, n |-> IF got.fetched THEN st.n + 1 ELSE st.n]
        rates == got.ret
    IN  IF price_match = <<0, 0>> \/ ~IsNumber(matched)
        THEN [ret |-> amount_str, rates |-> st.rates, n |-> st.n]
        ELSE IF target_currency = "USD"
        THEN [ret |-> "$" \o FormatMoney(ParseCents(matched)),
              rates |-> st.rates, n |-> st.n]
        ELSE IF target_currency \in DOMAIN rates
        THEN LET converted ==
                     RoundHundredth(MulDigits(ParseCents(matched), rates[target_currency], 0))
                 symbol == IF target_currency \in DOMAIN currency_symbols
                           THEN currency_symbols[target_currency]
                           ELSE target_currency
             IN  [ret |-> symbol \o FormatMoney(converted),
                  rates |-> after.rates, n |-> after.n]
        ELSE [ret |-> matched, rates |-> after.rates, n |-> after.n]

\* One call of convert_price(amount_str, target_currency) with the session's
\* table st.rates, st.n fetches made so far: the text it returns, and the
\* session's table and the count after it.
convert_price(amount_str, target_currency, st, script) ==
    LET price_match == SearchNumber(amount_str)
        matched == SubSeq(amount_str, price_match[1], price_match[2])
        got == get_exchange_rates(st.rates, FetchOutcome(script, st.n))
        after == [rates |-> got.rates, n |-> IF got.fetched THEN st.n + 1 ELSE st.n]
        rates == got.ret
    IN  IF price_match = <<0, 0>> \/ ~IsNumber(matched)
        THEN [ret |-> amount_str, rates |-> st.rates, n |-> st.n]
        ELSE IF target_currency = "USD"
        THEN [ret |-> "$" \o FormatMoney(ParseCents(matched)),
              rates |-> st.rates, n |-> st.n]
        ELSE IF target_currency \in DOMAIN rates
        THEN LET converted ==
                     RoundHundredth(MulDigits(ParseCents(matched), rates[target_currency], 0))
                 symbol == IF target_currency \in DOMAIN currency_symbols
                           THEN currency_symbols[target_currency]
                           ELSE target_currency
             IN  [ret |-> symbol \o FormatMoney(converted),
                  rates |-> after.rates, n |-> after.n]
        ELSE [ret |-> amount_str, rates |-> after.rates, n |-> after.n]

(***************************************************************************)
(* streamlit_app.py: extract_price_ranges.                                 *)
(***************************************************************************)
SpanOpen == "<span class=\"stunning-price-highlight\">"
SpanClose == "</span>"

\* The dashes of the range pattern; "~" stands for the en dash U+2013.
RangeDashes == {"-", "~"}

\* (?:,\d{3})* and (?:\.\d{2})? after position j, both greedy.
RECURSIVE GroupsEnd(_, _)
GroupsEnd(s, j) ==
    IF At(s, j + 1) = "," /\ IsDigitAt(s, j + 2) /\ IsDigitAt(s, j + 3)
                          /\ IsDigitAt(s, j + 4)
    THEN GroupsEnd(s, j + 4)
    ELSE j

DecimalsEnd(s, j) ==
    IF At(s, j + 1) = "." /\ IsDigitAt(s, j + 2) /\ IsDigitAt(s, j + 3)
    THEN j + 3
    ELSE j

\* \d+(?:,\d{3})*(?:\.\d{2})? at a digit i: the last position of the match.
AmountEnd(s, i) == DecimalsEnd(s, GroupsEnd(s, DigitsEnd(s, i)))

\* A slip in the pattern, \d* for \d+: a "$" with no digit after it matches too.
PriceMatchEnd_NoDigit(s, i) ==
    IF At(s, i) = "$"
    THEN (IF IsDigitAt(s, i + 1) THEN AmountEnd(s, i + 1) ELSE i)
    ELSE 0

\* price_pattern at i: the last position of the match, 0 when it does not match.
PriceMatchEnd(s, i) ==
    IF At(s, i) = "$" /\ IsDigitAt(s, i + 1) THEN AmountEnd(s, i + 1) ELSE 0

RECURSIVE SpaceEnd(_, _)
SpaceEnd(s, j) == IF At(s, j + 1) \in Whitespace THEN SpaceEnd(s, j + 1) ELSE j

\* range_pattern at i: the ends of the two amounts and the start of the second,
\* last = 0 when it does not match.
RangeMatch(s, i) ==
    IF At(s, i) = "$" /\ IsDigitAt(s, i + 1)
    THEN LET e1 == AmountEnd(s, i + 1)
             dash == SpaceEnd(s, e1) + 1
             q == SpaceEnd(s, dash)
             b2 == IF At(s, q + 1) = "$" THEN q + 2 ELSE q + 1
         IN  IF At(s, dash) \in RangeDashes /\ IsDigitAt(s, b2)
             THEN [last |-> AmountEnd(s, b2), e1 |-> e1, b2 |-> b2]
             ELSE [last |-> 0, e1 |-> 0, b2 |-> 0]
    ELSE [last |-> 0, e1 |-> 0, b2 |-> 0]

\* The text from position i on.
From(s, i) == IF i > Len(s) THEN "" ELSE SubSeq(s, i, Len(s))

\* The least position of a set of positions, 0 when the set is empty.
FirstPos(S) == IF S = {} THEN 0 ELSE CHOOSE j \in S : \A k \in S : j <= k

\* The greatest position of a set of positions, 0 when the set is empty.
LastPos(S) == IF S = {} THEN 0 ELSE CHOOSE j \in S : \A k \in S : k <= j

\* The first "$" at or after position i, 0 when there is none: both patterns
\* start with it, so the scan of re.sub can only match there.
NextDollar(s, i) == FirstPos({j \in i..Len(s) : At(s, j) = "$"})

\* re.sub(price_pattern, highlight_price, text) from position i on.
RECURSIVE sub_highlight(_, _)
sub_highlight(s, i) ==
    LET d == NextDollar(s, i)
        e == PriceMatchEnd(s, d)
    IN  IF d = 0 THEN From(s, i)
        ELSE IF e = 0 THEN SubSeq(s, i, d) \o sub_highlight(s, d + 1)
        ELSE SubSeq(s, i, d - 1) \o SpanOpen \o SubSeq(s, d, e) \o SpanClose
                 \o sub_highlight(s, e + 1)

\* The session's table and fetch count, as convert_price left them.
After(c) == [rates |-> c.rates, n |-> c.n]

\* A result of one of the passes with prefix put before its text.
Prepend(prefix, r) == [r EXCEPT !.out = prefix \o r.out]

\* re.sub(range_pattern, replace_price_range, text) from position i on: d is
\* the next "$", m the match there, c1 and c2 what convert_price made of the
\* two amounts.
RECURSIVE sub_range(_, _, _, _, _)
replace_price_range(s, i, d, m, cur, script, c1, c2) ==
    Prepend(SubSeq(s, i, d - 1) \o SpanOpen \o SubSeq(s, d, m.last) \o " ("
                \o c1.ret \o " - " \o c2.ret \o ")" \o SpanClose,
            sub_range(s, m.last + 1, cur, After(c2), script))

range_second(s, i, d, m, cur, script, c1) ==
    replace_price_range(s, i, d, m, cur, script, c1,
                        convert_price(SubSeq(s, m.b2, m.last), cur, After(c1), script))

range_at(s, i, d, m, cur, st, script) ==
    IF m.last = 0
    THEN Prepend(SubSeq(s, i, d), sub_range(s, d + 1, cur, st, script))
    ELSE range_second(s, i, d, m, cur, script,
                      convert_price(SubSeq(s, d + 1, m.e1), cur, st, script))

range_from(s, i, d, cur, st, script) ==
    IF d = 0 THEN [out |-> From(s, i), rates |-> st.rates, n |-> st.n]
    ELSE range_at(s, i, d, RangeMatch(s, d), cur, st, script)

sub_range(s, i, cur, st, script) ==
    range_from(s, i, NextDollar(s, i), cur, st, script)

\* re.sub(price_pattern, replace_single_price, text) from position i on: d is
\* the next "$", e the end of the match there, c what convert_price made of
\* the amount.
RECURSIVE sub_single(_, _, _, _, _)
replace_single_price(s, i, d, e, cur, script, c) ==
    Prepend(SubSeq(s, i, d - 1) \o SpanOpen \o SubSeq(s, d, e) \o " ("
                \o c.ret \o ")" \o SpanClose,
            sub_single(s, e + 1, cur, After(c), script))

single_at(s, i, d, e, cur, st, script) ==
    IF e = 0
    THEN Prepend(SubSeq(s, i, d), sub_single(s, d + 1, cur, st, script))
    ELSE replace_single_price(s, i, d, e, cur, script,
                              convert_price(SubSeq(s, d + 1, e), cur, st, script))

single_from(s, i, d, cur, st, script) ==
    IF d = 0 THEN [out |-> From(s, i), rates |-> st.rates, n |-> st.n]
    ELSE single_at(s, i, d, PriceMatchEnd(s, d), cur, st, script)

sub_single(s, i, cur, st, script) ==
    single_from(s, i, NextDollar(s, i), cur, st, script)

\* The single-amount pass on what the range pass returned.
single_pass(ranged, cur, script) ==
    sub_single(ranged.out, 1, cur, After(ranged), script)

\* As extract_price_ranges, without the branch for USD.
extract_price_ranges_NoUSDBranch(s, cur, st, script) ==
    single_pass(sub_range(s, 1, cur, st, script), cur, script)

\* extract_price_ranges(text) with the session's currency cur, its table
\* st.rates and st.n fetches made so far: the text it returns, and the session's
\* table and the count after it.
extract_price_ranges(s, cur, st, script) ==
    IF cur = "USD"
    THEN [out |-> sub_highlight(s, 1), rates |-> st.rates, n |-> st.n]
    ELSE single_pass(sub_range(s, 1, cur, st, script), cur, script)

(***************************************************************************)
(* The annotator on its own: one text of a bounded set is annotated in a   *)
(* session with some currency and some cached table.                       *)
(***************************************************************************)
MaxTextPieces == 3
MaxFetchOutcomes == 2

TextPieces == {"$1", "$2", "$", "2", ",111", ".11", "-", " ", "a"}

Texts == Concats(TextPieces, MaxTextPieces)

\* The currencies of the selectbox.
Currencies == {"USD", "INR", "EUR", "GBP", "AUD", "CAD", "JPY"}

ModelCurrencies == {"USD", "INR", "CAD"}

\* The tables a session can hold: none yet, or a fetched one.
CachedTables == {EmptyTable} \cup {WithUSD(t) : t \in RemoteTables}

\* What the remote source answers to the fetches of one run, in their order.
\* A fetch that got a table is the last one of the session, so what follows it
\* in a script is never asked for and repeats it.
FetchScripts ==
    {script \in [1..MaxFetchOutcomes -> FetchOutcomes] :
        \A i \in 1..(MaxFetchOutcomes - 1) :
            script[i].kind = "ok" => script[i + 1] = script[i]}

\* The scripts of one run.  A run fetches only with an empty table and a
\* currency other than USD, so the others need one script.
RunScripts ==
    IF exchange_rates = EmptyTable /\ currency # "USD" THEN FetchScripts
    ELSE {[i \in 1..MaxFetchOutcomes |-> [kind |-> "exception", rates |-> EmptyTable]]}

InitAnnotate ==
    /\ text \in Texts
    /\ currency \in ModelCurrencies
    /\ exchange_rates \in CachedTables
    /\ annotated = <<>>
    /\ question = ""
    /\ query_type = "pending"
    /\ InitSession

AnnotateText ==
    /\ annotated = <<>>
    /\ \E script \in RunScripts :
          \E r \in {extract_price_ranges(text, currency,
                                         [rates |-> exchange_rates, n |-> 0], script)} :
              /\ annotated' = <<r.out>>
              /\ exchange_rates' = r.rates
              /\ fetches' = r.n
    /\ UNCHANGED <<text, currency, question, response, query_type, rates_calls, session>>

NextAnnotate == AnnotateText

SpecAnnotate == InitAnnotate /\ [][NextAnnotate]_vars

(***************************************************************************)
(* streamlit_app.py: clean_content_from_markdown.  Each re.sub is a scan   *)
(* from the left that jumps from one match to the next.                    *)
(***************************************************************************)
\* ^ under re.MULTILINE.
LineStart(s, j) == j = 1 \/ At(s, j - 1) = "\n"

\* $ under re.MULTILINE, after position k.
LineEnd(s, k) == k >= Len(s) \/ At(s, k + 1) = "\n"

\* The last position of the run of the character c that starts at i, at most
\* most characters long.
RunEnd(s, i, c, most) ==
    LastPos({k \in i..(i + most - 1) : \A j \in i..k : At(s, j) = c})

\* re.sub(r'^#{1,6}\s*', '', content, flags=re.MULTILINE)
RECURSIVE sub_headers(_, _)
sub_headers(s, i) ==
    LET d == FirstPos({j \in i..Len(s) : At(s, j) = "#" /\ LineStart(s, j)})
    IN  IF d = 0 THEN From(s, i)
        ELSE SubSeq(s, i, d - 1)
                 \o sub_headers(s, SpaceEnd(s, RunEnd(s, d, "#", 6)) + 1)

\* Whether mark stands at position j of s.
MarkAt(s, j, mark) ==
    j >= 1 /\ j + Len(mark) - 1 <= Len(s) /\ SubSeq(s, j, j + Len(mark) - 1) = mark

\* (.*?) and the closing mark after an opening mark at d: the first position
\* where mark stands again with no line break before it, 0 when there is none.
ClosePos(s, d, mark) ==
    FirstPos({k \in (d + Len(mark))..Len(s) :
                 /\ MarkAt(s, k, mark)
                 /\ \A j \in (d + Len(mark))..(k - 1) : At(s, j) # "\n"})

\* re.sub(mark (.*?) mark, r'\1', content) for the marks **, __, * and _.
RECURSIVE sub_emphasis(_, _, _)
sub_emphasis(s, i, mark) ==
    LET d == FirstPos({j \in i..Len(s) : MarkAt(s, j, mark) /\ ClosePos(s, j, mark) # 0})
        c == ClosePos(s, d, mark)
    IN  IF d = 0 THEN From(s, i)
        ELSE SubSeq(s, i, d - 1) \o SubSeq(s, d + Len(mark), c - 1)
                 \o sub_emphasis(s, c + Len(mark), mark)

\* re.sub(r'^[-\*]\s*', '', content, flags=re.MULTILINE)
RECURSIVE sub_bullets(_, _)
sub_bullets(s, i) ==
    LET d == FirstPos({j \in i..Len(s) : At(s, j) \in {"-", "*"} /\ LineStart(s, j)})
    IN  IF d = 0 THEN From(s, i)
        ELSE SubSeq(s, i, d - 1) \o sub_bullets(s, SpaceEnd(s, d) + 1)

\* re.sub(r'^-+$', '', content, flags=re.MULTILINE)
RECURSIVE sub_rules(_, _)
sub_rules(s, i) ==
    LET d == FirstPos({j \in i..Len(s) :
                          /\ At(s, j) = "-"
                          /\ LineStart(s, j)
                          /\ LineEnd(s, RunEnd(s, j, "-", Len(s)))})
    IN  IF d = 0 THEN From(s, i)
        ELSE SubSeq(s, i, d - 1) \o sub_rules(s, RunEnd(s, d, "-", Len(s)) + 1)

\* The line breaks of the run of whitespace that starts at j.
BreaksFrom(s, j) == {k \in j..SpaceEnd(s, j - 1) : At(s, k) = "\n"}

\* re.sub(r'\n\s*\n\s*\n+', '\n\n', content): a run of whitespace that starts
\* with a line break and holds three of them is matched up to its last one.
RECURSIVE sub_blank_lines(_, _)
sub_blank_lines(s, i) ==
    LET d == FirstPos({j \in i..Len(s) :
                          At(s, j) = "\n" /\ Cardinality(BreaksFrom(s, j)) >= 3})
    IN  IF d = 0 THEN From(s, i)
        ELSE SubSeq(s, i, d - 1) \o "\n\n"
                 \o sub_blank_lines(s, LastPos(BreaksFrom(s, d)) + 1)

\* str.strip()
Strip(s) ==
    LET inked == {j \in 1..Len(s) : At(s, j) \notin Whitespace}
    IN  IF inked = {} THEN "" ELSE SubSeq(s, FirstPos(inked), LastPos(inked))

\* A cleaner that leaves the underscores in.
clean_content_from_markdown_NoUnderscore(content) ==
    LET headers == sub_headers(content, 1)
        bold == sub_emphasis(headers, 1, "**")
        italic == sub_emphasis(bold, 1, "*")
        bullets == sub_bullets(italic, 1)
        rules == sub_rules(bullets, 1)
    IN  Strip(sub_blank_lines(rules, 1))

clean_content_from_markdown(content) ==
    LET headers == sub_headers(content, 1)
        bold == sub_emphasis(sub_emphasis(headers, 1, "**"), 1, "__")
        italic == sub_emphasis(sub_emphasis(bold, 1, "*"), 1, "_")
        bullets == sub_bullets(italic, 1)
        rules == sub_rules(bullets, 1)
    IN  Strip(sub_blank_lines(rules, 1))

(***************************************************************************)
(* streamlit_app.py: what display_content_page annotates.                  *)
(***************************************************************************)
\* re.split(r'\n\s*\n', content) from position i on: a run of whitespace that
\* starts with a line break and holds two of them separates two sections.
RECURSIVE split_sections(_, _)
split_sections(s, i) ==
    LET d == FirstPos({j \in i..Len(s) :
                          At(s, j) = "\n" /\ Cardinality(BreaksFrom(s, j)) >= 2})
    IN  IF d = 0 THEN <<From(s, i)>>
        ELSE <<SubSeq(s, i, d - 1)>>
                 \o split_sections(s, LastPos(BreaksFrom(s, d)) + 1)

identify_section_type(content_section) ==
    LET content_lower == Lower(content_section)
    IN  IF AnyKeyword(content_lower, {"hotel", "accommodation", "stay", "lodge", "resort"})
        THEN "hotel"
        ELSE IF AnyKeyword(content_lower, {"cost", "budget", "price", "expense", "money", "$"})
        THEN "cost"
        ELSE IF AnyKeyword(content_lower, {"weather", "climate", "temperature", "rain", "sunny"})
        THEN "weather"
        ELSE IF AnyKeyword(content_lower,
                           {"activity", "attraction", "visit", "tour", "museum", "park"})
        THEN "activity"
        ELSE IF AnyKeyword(content_lower,
                           {"day 1", "day 2", "day 3", "morning", "afternoon", "evening"})
        THEN "day"
        ELSE "general"

\* lines[0] and '\n'.join(lines[1:]) of section.split('\n').
FirstLine(section) ==
    LET b == FirstPos({j \in 1..Len(section) : At(section, j) = "\n"})
    IN  IF b = 0 THEN section ELSE SubSeq(section, 1, b - 1)

RestLines(section) ==
    LET b == FirstPos({j \in 1..Len(section) : At(section, j) = "\n"})
    IN  IF b = 0 THEN "" ELSE From(section, b + 1)

\* re.match(r'Day \d+', section, re.IGNORECASE)
MatchesDay(section) ==
    Len(section) >= 5 /\ Lower(SubSeq(section, 1, 4)) = "day " /\ IsDigitAt(section, 5)

\* The texts one section of display_gorgeous_itinerary hands to
\* extract_price_ranges, in the order of the calls.
SectionTexts(section) ==
    LET section_type == identify_section_type(section)
    IN  IF Strip(section) = "" THEN <<>>
        ELSE IF MatchesDay(section) \/ section_type = "day"
        THEN <<Strip(RestLines(section))>>
        ELSE IF section_type \in {"hotel", "cost", "weather", "activity"}
        THEN <<section>>
        ELSE IF Len(FirstLine(section)) < 100 /\ ~Contains(FirstLine(section), ":")
        THEN <<section, Strip(RestLines(section))>>
        ELSE <<section>>

RECURSIVE ItineraryTexts(_, _)
ItineraryTexts(sections, k) ==
    IF k > Len(sections) THEN <<>>
    ELSE SectionTexts(sections[k]) \o ItineraryTexts(sections, k + 1)

\* extract_price_ranges on each text in turn.
RECURSIVE AnnotateAll(_, _, _, _, _)
AnnotateAll(texts, k, cur, st, script) ==
    IF k > Len(texts) THEN st
    ELSE AnnotateAll(texts, k + 1, cur,
                     After(extract_price_ranges(texts[k], cur, st, script)), script)

\* display_content_page(content_type, data): the session's table after the page
\* is drawn, and the fetches made.
display_content_page(content_type, data, cur, rates, script) ==
    LET clean_data == clean_content_from_markdown(data)
        texts == IF content_type = "complete"
                 THEN ItineraryTexts(split_sections(clean_data, 1), 1)
                 ELSE <<clean_data>>
    IN  AnnotateAll(texts, 1, cur, [rates |-> rates, n |-> 0], script)

(***************************************************************************)
(* main.py: the agent and POST /query.                                     *)
(***************************************************************************)
\* A JSON object is a function from its keys to texts; dict.get and bool().
EmptyDict == [k \in {} |-> ""]
Get(d, key, default) == IF key \in DOMAIN d THEN d[key] ELSE default
Truthy(d) == DOMAIN d # {}

\* What the agent library does in one request: whether GraphBuilder builds,
\* whether invoke raises, and the text of the last message otherwise.
AgentOutputs == {"", " ", "Day 1\n**Hotel Lux** $100-$200"}

AgentRuns ==
    [build : {"ok", "fail"}, invoke : {"return", "raise"}, output : AgentOutputs]

\* What the agent library does when the agent is constructed: "ok", "no_png"
\* when the agent is built and drawing or saving its graph raises, "fail" when
\* GraphBuilder or the call of its instance raises.
Builds == {"ok", "no_png", "fail"}

\* As get_or_create_graph, without the test of _react_app.
get_or_create_graph_Rebuild(app, build) ==
    IF build \in {"ok", "no_png"}
    THEN [ok |-> TRUE, react_app |-> "agent", constructs |-> TRUE]
    ELSE [ok |-> FALSE, react_app |-> app, constructs |-> TRUE]

\* get_or_create_graph: whether it returns the agent (or raises HTTPException),
\* _react_app after it, and whether it called GraphBuilder.
get_or_create_graph(app, build) ==
    IF app # "None" THEN [ok |-> TRUE, react_app |-> app, constructs |-> FALSE]
    ELSE IF build \in {"ok", "no_png"}
    THEN [ok |-> TRUE, react_app |-> "agent", constructs |-> TRUE]
    ELSE [ok |-> FALSE, react_app |-> "None", constructs |-> TRUE]

\* The answer of health_check whatever get_or_create_graph did.
health_check_AlwaysHealthy(app, build) ==
    [status |-> 200,
     body |-> [status |-> "healthy",
               message |-> "AI Travel Planning service is operational",
               ai_agent_status |-> "ready", timestamp |-> "now"],
     react_app |-> get_or_create_graph(app, build).react_app]

\* health_check: the HTTP answer and _react_app after it.
health_check(app, build) ==
    IF get_or_create_graph(app, build).ok
    THEN [status |-> 200,
          body |-> [status |-> "healthy",
                    message |-> "AI Travel Planning service is operational",
                    ai_agent_status |-> "ready", timestamp |-> "now"],
          react_app |-> get_or_create_graph(app, build).react_app]
    ELSE [status |-> 503,
          body |-> [status |-> "unhealthy",
                    message |-> "AI agent initialization failed",
                    error |-> "Failed to initialize AI agent", timestamp |-> "now"],
          react_app |-> get_or_create_graph(app, build).react_app]

\* startup_event: _react_app after it; preload is whether PRELOAD_AI_AGENT is
\* "true".  What get_or_create_graph raises is logged.
startup_event(app, preload, build) ==
    IF preload THEN get_or_create_graph(app, build).react_app ELSE app

\* shutdown_event: _react_app after it.
shutdown_event(app) == "None"

\* The JSONResponse of the except clause.
ErrorResponse(details, app) ==
    [status |-> 500,
     body |-> [error |-> "Failed to process travel query", details |-> details,
               timestamp |-> "now"],
     react_app |-> app]

\* The QueryResponse returned with status 200.
QueryResponse(answer, type, app) ==
    [status |-> 200,
     body |-> [answer |-> answer, timestamp |-> "now", query_type |-> type],
     react_app |-> app]

\* As handle_query, with the category taken from the agent's answer.
handle_query_TypeOfAnswer(q, graph, run) ==
    IF ~graph.ok THEN ErrorResponse("Failed to initialize AI agent", graph.react_app)
    ELSE IF run.invoke = "raise" THEN ErrorResponse("agent error", graph.react_app)
    ELSE IF Strip(run.output) = ""
    THEN ErrorResponse("AI agent returned empty response", graph.react_app)
    ELSE QueryResponse(run.output, determine_query_type(run.output), graph.react_app)

\* As handle_query, with get_or_create_graph called outside the try block:
\* the framework answers its HTTPException.
handle_query_InitOutsideTry(q, graph, run) ==
    IF ~graph.ok
    THEN [status |-> 500, body |-> [detail |-> "Failed to initialize AI agent"],
          react_app |-> graph.react_app]
    ELSE IF run.invoke = "raise" THEN ErrorResponse("agent error", graph.react_app)
    ELSE IF Strip(run.output) = ""
    THEN ErrorResponse("AI agent returned empty response", graph.react_app)
    ELSE QueryResponse(run.output, determine_query_type(q), graph.react_app)

\* The try block of query_travel_agent once get_or_create_graph has answered.
handle_query(q, graph, run) ==
    IF ~graph.ok THEN ErrorResponse("Failed to initialize AI agent", graph.react_app)
    ELSE IF run.invoke = "raise" THEN ErrorResponse("agent error", graph.react_app)
    ELSE IF Strip(run.output) = ""
    THEN ErrorResponse("AI agent returned empty response", graph.react_app)
    ELSE QueryResponse(run.output, determine_query_type(q), graph.react_app)

\* query_travel_agent: the HTTP answer and _react_app after it.
query_travel_agent(q, app, run) ==
    handle_query(q, get_or_create_graph(app, run.build), run)

(***************************************************************************)
(* streamlit_app.py: make_api_request.                                     *)
(***************************************************************************)
RequestTypes == {"complete", "hotels", "cost", "weather", "alternatives"}

\* As modified_query, with the weather branch missing.
modified_query_NoWeather(user_input, request_type) ==
    IF request_type = "hotels"
    THEN "Recommend detailed hotels and accommodations for: " \o user_input
    ELSE IF request_type = "cost"
    THEN "Provide detailed cost breakdown and budget analysis for: " \o user_input
    ELSE IF request_type = "alternatives"
    THEN "Suggest alternative travel plans and options for: " \o user_input
    ELSE user_input

\* The question put in the payload.
modified_query(user_input, request_type) ==
    IF request_type = "hotels"
    THEN "Recommend detailed hotels and accommodations for: " \o user_input
    ELSE IF request_type = "cost"
    THEN "Provide detailed cost breakdown and budget analysis for: " \o user_input
    ELSE IF request_type = "weather"
    THEN "Provide weather information and climate details for: " \o user_input
    ELSE IF request_type = "alternatives"
    THEN "Suggest alternative travel plans and options for: " \o user_input
    ELSE user_input

\* The exceptions requests.post and response.json() raise, each with the
\* classes the except clauses test it against.
ExceptionClasses ==
    [ConnectionError |-> {"ConnectionError", "RequestException", "Exception"},
     ConnectTimeout |-> {"ConnectionError", "Timeout", "RequestException", "Exception"},
     ReadTimeout |-> {"Timeout", "RequestException", "Exception"},
     TooManyRedirects |-> {"RequestException", "Exception"},
     RequestsJSONDecodeError |-> {"RequestException", "JSONDecodeError", "Exception"},
     JSONDecodeError |-> {"JSONDecodeError", "Exception"},
     ValueError |-> {"Exception"},
     RuntimeError |-> {"Exception"}]

\* requests.post fails with one of these.
PostExceptions ==
    {"ConnectionError", "ConnectTimeout", "ReadTimeout", "TooManyRedirects", "RuntimeError"}

\* response.json() fails with one of these on a body that is no JSON, by the
\* version of requests and the JSON library it uses.
JsonExceptions == {"RequestsJSONDecodeError", "JSONDecodeError", "ValueError"}

\* As ExceptClause, without the last clause, except Exception.
ExceptClause_NoCatchAll(exc) ==
    LET classes == ExceptionClasses[exc]
    IN  IF "ConnectionError" \in classes THEN "Connection Error"
        ELSE IF "Timeout" \in classes THEN "Timeout Error"
        ELSE IF "RequestException" \in classes THEN "Network Error"
        ELSE IF "JSONDecodeError" \in classes THEN "Response Error"
        ELSE "raise"

\* The except clauses in their order: the message st.error shows, "raise" when
\* no clause takes the exception.
ExceptClause(exc) ==
    LET classes == ExceptionClasses[exc]
    IN  IF "ConnectionError" \in classes THEN "Connection Error"
        ELSE IF "Timeout" \in classes THEN "Timeout Error"
        ELSE IF "RequestException" \in classes THEN "Network Error"
        ELSE IF "JSONDecodeError" \in classes THEN "Response Error"
        ELSE IF "Exception" \in classes THEN "Unexpected Error"
        ELSE "raise"

\* What answers the POST: [kind |-> "exception", class] when requests.post
\* raises, or [kind |-> "response", status, json, body], json naming the
\* exception of response.json() ("" when the body is a JSON object).
ResponseReply(status, body) ==
    [kind |-> "response", class |-> "", status |-> status, json |-> "", body |-> body]

ExceptionReply(class) ==
    [kind |-> "exception", class |-> class, status |-> 0, json |-> "", body |-> EmptyDict]

BadJsonReply(class) ==
    [kind |-> "response", class |-> "", status |-> 200, json |-> class, body |-> EmptyDict]

\* The statuses something between the front-end and the agent answers with.
OtherStatuses == {404, 429, 500}

\* The JSON objects a 200 that is not the backend's can carry.
OtherBodies == {EmptyDict, [detail |-> "x"], [answer |-> ""]}

OtherReplies ==
    {ExceptionReply(c) : c \in PostExceptions}
        \cup {BadJsonReply(c) : c \in JsonExceptions}
        \cup {ResponseReply(st, EmptyDict) : st \in OtherStatuses}
        \cup {ResponseReply(200, b) : b \in OtherBodies}

\* How one call ends: the number of POSTs made, the time.sleep calls, the value
\* returned (<<>> is None, <<d>> the object d), the message of st.error ("" when
\* none is shown) and whether an exception left the function.  The function
\* has one requests.post and no loop around it.
Outcome(result, message, raised) ==
    [attempts |-> 1, sleeps |-> <<>>, result |-> result, st_error |-> message,
     raised |-> raised]

\* An exception raised inside the try block.
Caught(exc) ==
    IF ExceptClause(exc) = "raise" THEN Outcome(<<>>, "", TRUE)
    ELSE Outcome(<<>>, ExceptClause(exc), FALSE)

\* As post_and_decode, with a status other than 200 tried three times, five
\* seconds apart.
post_and_decode_RetryStatus(reply) ==
    IF reply.kind = "exception" THEN Caught(reply.class)
    ELSE IF reply.status = 200
    THEN IF reply.json # "" THEN Caught(reply.json)
         ELSE Outcome(<<reply.body>>, "", FALSE)
    ELSE [Outcome(<<>>, "Server Error", FALSE) EXCEPT !.attempts = 3, !.sleeps = <<5, 5>>]

\* The try block from requests.post on, given what answers the POST.
post_and_decode(reply) ==
    IF reply.kind = "exception" THEN Caught(reply.class)
    ELSE IF reply.status = 200
    THEN IF reply.json # "" THEN Caught(reply.json)
         ELSE Outcome(<<reply.body>>, "", FALSE)
    ELSE Outcome(<<>>, "Server Error", FALSE)

\* The record of one call: what it was called with, the question of the
\* payload, what answered, and how it ended.
CallRecord(user_input, request_type, reply, outcome) ==
    [made |-> TRUE, user_input |-> user_input, request_type |-> request_type,
     question |-> modified_query(user_input, request_type), reply |-> reply,
     attempts |-> outcome.attempts, sleeps |-> outcome.sleeps,
     result |-> outcome.result, st_error |-> outcome.st_error,
     raised |-> outcome.raised]

\* One call of make_api_request that got reply.
make_api_request(user_input, request_type, reply) ==
    CallRecord(user_input, request_type, reply, post_and_decode(reply))

(***************************************************************************)
(* streamlit_app.py: the session, one action per script run of main() that *)
(* changes it.  The POST of a run either reaches the backend, which        *)
(* answers as query_travel_agent does, or is answered by something else.   *)
(***************************************************************************)
ContentViews == {"complete", "hotels", "cost", "weather", "alternatives"}
Views == {"main", "menu"} \cup ContentViews

\* The example buttons of the main view.
Examples ==
    {"Plan a 7-day beach vacation in Goa for 2 people with water sports and local cuisine",
     "Plan a 10-day adventure trip to Nepal including trekking and cultural sites for 3 people",
     "Plan a 5-day cultural heritage tour of Rajasthan covering palaces and forts for a family of 4"}

HotelCostQuestion == "What's the hotel cost in Paris?"

\* What the user types in the text input.
TypedInputs == {"", "  ", " " \o HotelCostQuestion \o " "}

\* The POST of one run: the call record and _react_app after it.
Requests(user_input, request_type) ==
    {[call |-> make_api_request(user_input, request_type, r), react_app |-> react_app]
        : r \in OtherReplies}
    \cup
    {LET answer == query_travel_agent(modified_query(user_input, request_type),
                                      react_app, run)
     IN  [call |-> make_api_request(user_input, request_type,
                                    ResponseReply(answer.status, answer.body)),
          react_app |-> answer.react_app]
        : run \in AgentRuns}

\* As Submit, with travel_data emptied when the request gave nothing.
Submit_ClearsOnFailure(query) ==
    /\ current_view = "main"
    /\ \E req \in Requests(query, "complete") :
          /\ call' = req.call
          /\ react_app' = req.react_app
          /\ travel_data' = IF req.call.result # <<>> /\ Truthy(req.call.result[1])
                            THEN <<Get(req.call.result[1], "answer", "")>>
                            ELSE <<"">>
    /\ user_query' = query
    /\ current_view' = "menu"
    /\ UNCHANGED <<loading, currency, exchange_rates>>

\* "Plan Trip" with a text that is not blank, or an example button.
Submit(query) ==
    /\ current_view = "main"
    /\ \E req \in Requests(query, "complete") :
          /\ call' = req.call
          /\ react_app' = req.react_app
          /\ travel_data' = IF req.call.result # <<>> /\ Truthy(req.call.result[1])
                            THEN <<Get(req.call.result[1], "answer", "")>>
                            ELSE travel_data
    /\ user_query' = query
    /\ current_view' = "menu"
    /\ UNCHANGED <<loading, currency, exchange_rates>>

SubmitQuery ==
    \E user_input \in TypedInputs :
        /\ user_input # "" /\ Strip(user_input) # ""
        /\ Submit(Strip(user_input))
        /\ UNCHANGED <<question, response, query_type, text, annotated, fetches, rates_calls>>

SubmitExample ==
    \E query \in Examples :
        /\ Submit(query)
        /\ UNCHANGED <<question, response, query_type, text, annotated, fetches, rates_calls>>

\* A menu button that sets loading and leaves the menu on the page.
MenuSelect_StaysOnMenu ==
    /\ current_view = "menu"
    /\ loading' = TRUE
    /\ call' = NoCall
    /\ UNCHANGED <<current_view, travel_data, user_query, react_app, currency,
                   exchange_rates, question, response, query_type, text, annotated,
                   fetches, rates_calls>>

\* A button of display_elegant_menu.
MenuSelect ==
    /\ current_view = "menu"
    /\ \E option_id \in ContentViews : current_view' = option_id
    /\ loading' = TRUE
    /\ call' = NoCall
    /\ UNCHANGED <<travel_data, user_query, react_app, currency, exchange_rates,
                   question, response, query_type, text, annotated,
                   fetches, rates_calls>>

\* The selectbox of display_beautiful_currency_converter, shown in the menu.
SelectCurrency ==
    /\ current_view = "menu"
    /\ \E selected_currency \in ModelCurrencies :
          /\ selected_currency # currency
          /\ currency' = selected_currency
    /\ call' = NoCall
    /\ UNCHANGED <<current_view, travel_data, user_query, loading, react_app,
                   exchange_rates, question, response, query_type, text, annotated,
                   fetches, rates_calls>>

\* The run of a content view that finds loading set: the request, then the
\* page or the failure view.
LoadContent ==
    /\ current_view \in ContentViews
    /\ loading
    /\ \E req \in Requests(user_query, current_view) :
          /\ call' = req.call
          /\ react_app' = req.react_app
          /\ IF /\ req.call.result # <<>>
                /\ Truthy(req.call.result[1])
                /\ Get(req.call.result[1], "answer", "") # ""
             THEN \E script \in RunScripts :
                     exchange_rates' =
                         display_content_page(current_view, req.call.result[1].answer,
                                              currency, exchange_rates, script).rates
             ELSE exchange_rates' = exchange_rates
    /\ loading' = FALSE
    /\ UNCHANGED <<current_view, travel_data, user_query, currency,
                   question, response, query_type, text, annotated,
                   fetches, rates_calls>>

\* A run of a content view with loading not set that asks for the request
\* again.
LeaveContent_Reloads ==
    /\ current_view \in ContentViews
    /\ ~loading
    /\ loading' = TRUE
    /\ call' = NoCall
    /\ UNCHANGED <<current_view, travel_data, user_query, react_app, currency,
                   exchange_rates, question, response, query_type, text, annotated,
                   fetches, rates_calls>>

\* A run of a content view with loading not set (after any click on the page).
LeaveContent ==
    /\ current_view \in ContentViews
    /\ ~loading
    /\ current_view' = "menu"
    /\ call' = NoCall
    /\ UNCHANGED <<travel_data, user_query, loading, react_app, currency,
                   exchange_rates, question, response, query_type, text, annotated,
                   fetches, rates_calls>>

Init ==
    /\ InitSession
    /\ currency = "USD"
    /\ exchange_rates = EmptyTable
    /\ question = ""
    /\ query_type = "pending"
    /\ text = ""
    /\ annotated = <<>>

Next ==
    \/ SubmitQuery
    \/ SubmitExample
    \/ MenuSelect
    \/ SelectCurrency
    \/ LoadContent
    \/ LeaveContent

Spec == Init /\ [][Next]_vars

(***************************************************************************)
(* The request pipeline: what one call of make_api_request does.           *)
(***************************************************************************)
\* The call of this run got an HTTP response with status st.
GotStatus(st) ==
    call.made /\ call.reply.kind = "response" /\ call.reply.status = st

\* The call of this run got an exception of requests.post.
GotException(classes) ==
    call.made /\ call.reply.kind = "exception" /\ call.reply.class \in classes

\* C1: an attempt that ends in HTTP 500 or in a connection or timeout error,
\* not being the third, is followed by a wait of 5 seconds and another attempt.
C1_RetryAfterServerError ==
    (GotStatus(500) \/ GotException({"ConnectionError", "ConnectTimeout", "ReadTimeout"}))
        => /\ call.attempts >= 2
           /\ Len(call.sleeps) >= 1
           /\ call.sleeps[1] = 5

\* C2: an HTTP 429 on the first attempt is followed by a wait of 10 seconds
\* and a second attempt.
C2_BackoffAfterRateLimit ==
    GotStatus(429)
        => /\ call.attempts >= 2
           /\ Len(call.sleeps) >= 1
           /\ call.sleeps[1] = 10

\* C3: a response whose status is outside 200..299 and is neither 429 nor 500
\* ends the call after that one attempt, without a wait, as an HTTP error:
\* the status is reported and nothing is returned.
C3_OtherStatusNotRetried ==
    (/\ call.made
     /\ call.reply.kind = "response"
     /\ call.reply.status \notin 200..299
     /\ call.reply.status \notin {429, 500})
        => /\ call.attempts = 1
           /\ call.sleeps = <<>>
           /\ call.result = <<>>
           /\ call.st_error = "Server Error"
           /\ ~call.raised

\* A call was answered with status 404.
C3_Witness ==
    GotStatus(404) /\ call.attempts = 1 /\ call.st_error = "Server Error"

\* The result of the call carries an answer; it carries an error.
HasAnswer == call.result # <<>> /\ Get(call.result[1], "answer", "") # ""
HasError == call.result = <<>> /\ call.st_error # ""

\* C4: the result of a call carries an answer or an error, and not both.
C4_AnswerXorError ==
    call.made => (HasAnswer /\ ~HasError) \/ (HasError /\ ~HasAnswer)

\* The outbound call failed: requests.post raised, or the body of a 200 could
\* not be decoded.
CallFailed ==
    /\ call.made
    /\ \/ call.reply.kind = "exception"
       \/ call.reply.kind = "response" /\ call.reply.status = 200 /\ call.reply.json # ""

\* The kind an error message stands for, the message itself when it stands
\* for none of the six.
ErrorKind(message) ==
    IF message = "Connection Error" THEN "connection"
    ELSE IF message = "Timeout Error" THEN "timeout"
    ELSE IF message = "Unexpected Error" THEN "unexpected"
    ELSE message

CategoryName(request_type) ==
    IF request_type = "complete" THEN "complete_itinerary"
    ELSE IF request_type = "cost" THEN "cost_breakdown"
    ELSE request_type

\* The backend answered the call of this run with a QueryResponse.
GotQueryResponse ==
    /\ call.made
    /\ call.result # <<>>
    /\ "query_type" \in DOMAIN call.result[1]

C8_RewriteByCategory ==
    call.made
        => /\ call.request_type \in RequestTypes
           /\ call.request_type = "complete" => call.question = call.user_input
           /\ call.request_type = "hotels"
                 => call.question =
                        "Recommend detailed hotels and accommodations for: "
                            \o call.user_input
           /\ call.request_type = "cost"
                 => call.question =
                        "Provide detailed cost breakdown and budget analysis for: "
                            \o call.user_input
           /\ call.request_type = "weather"
                 => call.question =
                        "Provide weather information and climate details for: "
                            \o call.user_input
           /\ call.request_type = "alternatives"
                 => call.question =
                        "Suggest alternative travel plans and options for: "
                            \o call.user_input

\* A weather request for the hotel example has been sent.
C8_Witness ==
    /\ call.made
    /\ call.request_type = "weather"
    /\ call.question =
           "Provide weather information and climate details for: " \o HotelCostQuestion

\* The number of places of s where k starts.
CountOcc(s, k) ==
    Cardinality({i \in 1..(Len(s) - Len(k) + 1) : SubSeq(s, i, i + Len(k) - 1) = k})

\* What convert_price returns for an amount with the table the session holds.
ConvertedWith(amount, cur, rates) ==
    convert_price(amount, cur, [rates |-> rates, n |-> 0],
                  [i \in 1..MaxFetchOutcomes |-> [kind |-> "status", rates |-> EmptyTable]]).ret

\* The text is one range "$low-$high", from its first character to its last.
IsOneRange(s) ==
    /\ Len(s) > 0
    /\ RangeMatch(s, 1).last = Len(s)
    /\ At(s, RangeMatch(s, 1).b2 - 1) = "$"

RangeLow(s) == SubSeq(s, 2, RangeMatch(s, 1).e1)
RangeHigh(s) == SubSeq(s, RangeMatch(s, 1).b2, Len(s))

\* The text has a "$" with a digit right after it.
HasDollarNumber(s) == \E i \in 1..Len(s) : At(s, i) = "$" /\ IsDigitAt(s, i + 1)

(***************************************************************************)
(* C9, as the specification states it: when a text that is one valid range *)
(* is annotated for a target currency other than USD that the session's    *)
(* table holds, the annotated text shows the converted value of each bound *)
(* exactly once (the single-amount pass converts nothing of the range      *)
(* again).  The code runs the single-amount pass over the output of the    *)
(* range pass, which still holds "$low" and "$high" (and, for AUD and CAD, *)
(* the "A$" and "C$" values the range pass wrote).                         *)
(***************************************************************************)
C9_EachBoundOnce ==
    [][(/\ annotated = <<>>
        /\ annotated' # <<>>
        /\ currency # "USD"
        /\ currency \in DOMAIN exchange_rates
        /\ IsOneRange(text))
           => LET lo == ConvertedWith(RangeLow(text), currency, exchange_rates)
                  hi == ConvertedWith(RangeHigh(text), currency, exchange_rates)
              IN  lo # hi => /\ CountOcc(annotated'[1], lo) = 1
                             /\ CountOcc(annotated'[1], hi) = 1]_vars

(***************************************************************************)
(* C10: a text with no "$" that has a digit right after it comes back from *)
(* extract_price_ranges exactly as it was given, whatever the session's    *)
(* currency and table.                                                     *)
(***************************************************************************)
C10_NoPriceUnchanged ==
    (annotated # <<>> /\ ~HasDollarNumber(text)) => annotated = <<text>>

\* A text with a "$" and a number, but no number right after the "$", has been
\* annotated for a currency other than USD.
C10_Witness ==
    /\ annotated = <<text>>
    /\ ~HasDollarNumber(text)
    /\ Contains(text, "$")
    /\ \E i \in 1..Len(text) : IsDigitAt(text, i)
    /\ currency # "USD"

\* The text s without the occurrences of k.
RECURSIVE Without(_, _)
Without(s, k) ==
    LET d == FirstPos({i \in 1..(Len(s) - Len(k) + 1) : SubSeq(s, i, i + Len(k) - 1) = k})
    IN  IF d = 0 THEN s
        ELSE SubSeq(s, 1, d - 1) \o Without(From(s, d + Len(k)), k)

\* The places of s where a "$" has a digit right after it.
DollarNumbers(s) == {i \in 1..Len(s) : At(s, i) = "$" /\ IsDigitAt(s, i + 1)}

(***************************************************************************)
(* C11: with USD as the session's currency the annotated text is the text  *)
(* given with markers put in and nothing else: taking the markers out      *)
(* gives the text back (no amount changed, no value added), there is one   *)
(* marker per "$" amount and each amount stands whole between an opening   *)
(* and a closing marker, and no request for rates is made.                 *)
(***************************************************************************)
C11_USDHighlightsOnly ==
    (annotated # <<>> /\ currency = "USD")
        => /\ Without(Without(annotated[1], SpanOpen), SpanClose) = text
           /\ CountOcc(annotated[1], SpanOpen) = Cardinality(DollarNumbers(text))
           /\ CountOcc(annotated[1], SpanClose) = Cardinality(DollarNumbers(text))
           /\ \A i \in DollarNumbers(text) :
                 Contains(annotated[1],
                          SpanOpen \o SubSeq(text, i, PriceMatchEnd(text, i)) \o SpanClose)
           /\ fetches = 0

\* A text with two amounts has been annotated for USD in a session that holds
\* no table.
C11_Witness ==
    /\ annotated # <<>>
    /\ currency = "USD"
    /\ exchange_rates = EmptyTable
    /\ Cardinality(DollarNumbers(text)) = 2
    /\ annotated[1] # text

(***************************************************************************)
(* C12, as the specification states it: an amount whose conversion fails   *)
(* stays in the output as it was in the input, with no marker and no       *)
(* value after it.  The session here holds a fetched table without its     *)
(* currency, so that convert_price fails on every amount of the text and   *)
(* the text should come back as given.  The code puts what convert_price   *)
(* returned, the amount itself, in the marker like a converted value.      *)
(***************************************************************************)
C12_FailedAmountUntouched ==
    (/\ annotated # <<>>
     /\ currency # "USD"
     /\ exchange_rates # EmptyTable
     /\ currency \notin DOMAIN exchange_rates)
        => annotated = <<text>>

(***************************************************************************)
(* The exchange-rate table on its own: a new session calls                 *)
(* get_exchange_rates again and again, and the remote source answers each  *)
(* request it gets in any of its ways.                                     *)
(***************************************************************************)
MaxRatesCalls == 4

\* What the remote source has ready for a request: one of FetchOutcomes, or a
\* 200 whose body holds no "rates".
RatesOutcomes == FetchOutcomes \cup {[kind |-> "ok", rates |-> EmptyTable]}

InitRates ==
    /\ exchange_rates = EmptyTable
    /\ currency = "USD"
    /\ question = ""
    /\ query_type = "pending"
    /\ text = ""
    /\ annotated = <<>>
    /\ InitSession

\* One call: what it returned, whether it made a request, and what the remote
\* source had ready (the answer to the request when one was made).
CallRates ==
    /\ Len(rates_calls) < MaxRatesCalls
    /\ \E outcome \in RatesOutcomes :
          \E got \in {get_exchange_rates(exchange_rates, outcome)} :
              /\ exchange_rates' = got.rates
              /\ rates_calls' = Append(rates_calls,
                                       [ret |-> got.ret, fetched |-> got.fetched,
                                        remote |-> outcome.kind])
    /\ UNCHANGED <<currency, question, response, query_type, text, annotated, fetches, session>>

NextRates == CallRates

SpecRates == InitRates /\ [][NextRates]_vars

\* The i-th call made a request and it failed; it made one and got a table.
FetchFailed(i) == rates_calls[i].fetched /\ rates_calls[i].remote # "ok"
FetchSucceeded(i) == rates_calls[i].fetched /\ rates_calls[i].remote = "ok"

\* C13: a call whose request fails returns the fallback table, and no call
\* returns an empty table or one without USD at 1.0.
C13_FallbackOnAnyFailure ==
    \A i \in 1..Len(rates_calls) :
        /\ FetchFailed(i) => rates_calls[i].ret = FallbackRates
        /\ rates_calls[i].ret # EmptyTable
        /\ "USD" \in DOMAIN rates_calls[i].ret
        /\ rates_calls[i].ret["USD"] = 100

\* C14: after a call whose request failed, every later call returns the
\* fallback table and makes no request.
C14_FallbackIsCached ==
    \A i \in 1..Len(rates_calls) : \A j \in (i + 1)..Len(rates_calls) :
        FetchFailed(i) => /\ rates_calls[j].ret = FallbackRates
                          /\ ~rates_calls[j].fetched

\* C15: after a call whose request got a table, every later call returns that
\* table and makes no request, whatever the remote source has ready; a session
\* gets a table from the remote source at most once.
C15_OneSuccessfulFetch ==
    /\ \A i \in 1..Len(rates_calls) : \A j \in (i + 1)..Len(rates_calls) :
          FetchSucceeded(i) => /\ rates_calls[j].ret = rates_calls[i].ret
                               /\ ~rates_calls[j].fetched
                               /\ exchange_rates = rates_calls[i].ret
    /\ Cardinality({i \in 1..Len(rates_calls) : FetchSucceeded(i)}) <= 1

\* The first call fetched a table; at the second the remote source could not be
\* reached, and at the third it had another table ready.
C15_Witness ==
    /\ Len(rates_calls) = 3
    /\ FetchSucceeded(1)
    /\ rates_calls[2].remote = "exception"
    /\ rates_calls[3].remote = "ok"
    /\ rates_calls[3].ret = rates_calls[1].ret

(***************************************************************************)
(* convert_price on its own: one amount text is converted to the session's *)
(* currency with some cached table, or with none and a fetch.              *)
(***************************************************************************)
\* The amount texts: plain and grouped amounts, with and without cents, an
\* amount in a phrase, and texts that hold no number.
AmountTexts ==
    {"100", "1", "2.50", "1.2", "19.99", "1,111.11", "about $5 a day", "n/a", ","}

InitConvert ==
    /\ text \in AmountTexts
    /\ currency \in Currencies
    /\ exchange_rates \in CachedTables
    /\ annotated = <<>>
    /\ question = ""
    /\ query_type = "pending"
    /\ InitSession

ConvertPrice ==
    /\ annotated = <<>>
    /\ \E script \in RunScripts :
          \E r \in {convert_price(text, currency,
                                  [rates |-> exchange_rates, n |-> 0], script)} :
              /\ annotated' = <<r.ret>>
              /\ exchange_rates' = r.rates
              /\ fetches' = r.n
    /\ UNCHANGED <<text, currency, question, response, query_type, rates_calls, session>>

NextConvert == ConvertPrice

SpecConvert == InitConvert /\ [][NextConvert]_vars

\* The number a text of digits stands for, other characters passed over.
RECURSIVE DigitsValue(_, _)
DigitsValue(s, acc) ==
    IF Len(s) = 0 THEN acc
    ELSE IF IsDigitAt(s, 1) THEN DigitsValue(From(s, 2), 10 * acc + DigitValue(At(s, 1)))
    ELSE DigitsValue(From(s, 2), acc)

\* The amounts of AmountTexts in cents.
AmountCents ==
    [t \in {"100", "1", "2.50", "1.2", "19.99", "1,111.11", "about $5 a day"} |->
        IF t = "100" THEN 10000 ELSE IF t = "1" THEN 100 ELSE IF t = "2.50" THEN 250
        ELSE IF t = "1.2" THEN 120 ELSE IF t = "19.99" THEN 1999
        ELSE IF t = "1,111.11" THEN 111111 ELSE 500]

\* The symbol put before a converted amount.
SymbolOf(cur) ==
    IF cur = "USD" THEN "$"
    ELSE IF cur \in DOMAIN currency_symbols THEN currency_symbols[cur] ELSE cur

\* ret shows, with the symbol of cur and two decimals, the amount of cents
\* times rate (in hundredths) rounded to a cent.
ShowsProduct(ret, cur, cents, rate) ==
    LET symbol == SymbolOf(cur)
        shown == DigitsValue(From(ret, Len(symbol) + 1), 0)
        product == cents * rate
    IN  /\ SubSeq(ret, 1, Len(symbol)) = symbol
        /\ At(ret, Len(ret) - 2) = "."
        /\ 100 * shown - product <= 50
        /\ product - 100 * shown <= 50

(***************************************************************************)
(* C16: for an amount in USD and a target currency of the table            *)
(* get_exchange_rates gives, convert_price shows the amount times the rate *)
(* of the target (the amount itself for USD): with the table the session   *)
(* holds, and with the fallback table when the session holds none and the  *)
(* fetch raises; 100 to INR with the fallback table shows 8,300.00.        *)
(***************************************************************************)
C16_AmountTimesRate ==
    (annotated # <<>> /\ text \in DOMAIN AmountCents)
        => /\ currency = "USD"
                 => ShowsProduct(annotated[1], "USD", AmountCents[text], 100)
           /\ (currency # "USD" /\ currency \in DOMAIN exchange_rates)
                 => ShowsProduct(annotated[1], currency, AmountCents[text],
                                 exchange_rates[currency])
           /\ (currency # "USD" /\ exchange_rates = EmptyTable /\ annotated # <<text>>)
                 => ShowsProduct(annotated[1], currency, AmountCents[text],
                                 FallbackRates[currency])
           /\ (/\ text = "100"
               /\ currency = "INR"
               /\ exchange_rates = EmptyTable
               /\ annotated # <<text>>)
                 => annotated = <<"{INR}8,300.00">>

\* 100 has been converted to INR with the fallback table.
C16_Witness ==
    /\ text = "100"
    /\ currency = "INR"
    /\ exchange_rates = EmptyTable
    /\ fetches = 1
    /\ annotated = <<"{INR}8,300.00">>

(***************************************************************************)
(* C17: when the table convert_price works with, the one the session held *)
(* or the one fetched during the call, does not hold the target currency,  *)
(* convert_price returns the text it was given, as it was given.  (USD is  *)
(* not looked up in the table.)                                            *)
(***************************************************************************)
C17_UnknownTargetNoOp ==
    (/\ annotated # <<>>
     /\ currency # "USD"
     /\ exchange_rates # EmptyTable
     /\ currency \notin DOMAIN exchange_rates)
        => annotated = <<text>>

\* An amount in a phrase was to be converted to a currency the session's table
\* does not hold.
C17_Witness ==
    /\ annotated = <<text>>
    /\ text = "about $5 a day"
    /\ currency = "JPY"
    /\ exchange_rates # EmptyTable
    /\ "JPY" \notin DOMAIN exchange_rates

(***************************************************************************)
(* clean_content_from_markdown on its own: a text is cleaned, and what     *)
(* comes out is cleaned again.                                             *)
(***************************************************************************)
MaxMarkerPieces == 3
MaxSpanPieces == 4
MaxCleanings == 2

\* Texts of markers: headers, bullets, emphasis marks and rules, repeated and
\* put inside one another, over one or several lines.
MarkerPieces == {"# ", "- ", "***", "**", "*", "_", "a", " ", "\n"}
MarkerTexts == Concats(MarkerPieces, MaxMarkerPieces)

\* Texts of plain words and whole spans of bold and of italic, none inside
\* another.
SpanPieces == {"**Bold**", "__bd__", "*it*", "_italic_", " and ", " text"}
SpanTexts == Concats(SpanPieces, MaxSpanPieces)

MarkdownTexts == MarkerTexts \cup SpanTexts

InitMarkdown ==
    /\ text \in MarkdownTexts
    /\ annotated = <<>>
    /\ currency = "USD"
    /\ exchange_rates = EmptyTable
    /\ question = ""
    /\ query_type = "pending"
    /\ InitSession

\* The text given is cleaned, then the last text that came out.
CleanContent ==
    /\ Len(annotated) < MaxCleanings
    /\ annotated' = Append(annotated,
                           clean_content_from_markdown(
                               IF annotated = <<>> THEN text
                               ELSE annotated[Len(annotated)]))
    /\ UNCHANGED <<text, currency, exchange_rates, fetches, question, response, query_type,
                   rates_calls, session>>

NextMarkdown == CleanContent

SpecMarkdown == InitMarkdown /\ [][NextMarkdown]_vars

(***************************************************************************)
(* C18: cleaning a text that clean_content_from_markdown gave gives the    *)
(* same text: every cleaning after the first changes nothing.              *)
(***************************************************************************)
C18_CleanIdempotent ==
    \A i \in 2..Len(annotated) : annotated[i] = annotated[i - 1]

(***************************************************************************)
(* C19: for a text of plain words and whole spans of bold and of italic,   *)
(* none inside another, clean_content_from_markdown gives the words with   *)
(* every "*" and "_" taken out and nothing else lost (the white space at   *)
(* the two ends apart, which strip() takes); "**Bold** and _italic_ text"  *)
(* gives "Bold and italic text".                                           *)
(***************************************************************************)
C19_DelimitersRemoved ==
    (annotated # <<>> /\ text \in SpanTexts)
        => /\ annotated[1] = Strip(Without(Without(text, "*"), "_"))
           /\ text = "**Bold** and _italic_ text"
                 => annotated[1] = "Bold and italic text"

\* The text of bold and italic of the claim has been cleaned.
C19_Witness ==
    /\ text = "**Bold** and _italic_ text"
    /\ annotated # <<>>
    /\ annotated[1] = "Bold and italic text"

(***************************************************************************)
(* The backend on its own: after the startup event, requests of /health    *)
(* and /query are handled one after another, with the agent library doing  *)
(* as it will, until the shutdown event.                                   *)
(***************************************************************************)
MaxRequests == 4

BackendQuestions ==
    {"", HotelCostQuestion, "Is the weather good in May?", "Plan 2 days in Rome"}

BackendRuns ==
    [build : Builds, invoke : {"return", "raise"}, output : AgentOutputs]

\* A run of the agent library of which only the construction matters.
BuildOnly(build) == [build |-> build, invoke |-> "return", output |-> ""]

\* What response holds after one operation of the backend: its place in the
\* order, which it was, the question of a POST /query, _react_app when it
\* began, what the agent library did, whether get_or_create_graph was called
\* and whether that call constructed, and the status and body of the answer
\* (status 0 for the events, which answer nothing).
Handled(op, q, run, called, status, body) ==
    [n |-> response.n + 1, op |-> op, question |-> q, app |-> react_app,
     run |-> run, called |-> called,
     constructs |-> called /\ get_or_create_graph(react_app, run.build).constructs,
     status |-> status, body |-> body]

\* The server is up: the startup event has run and the shutdown event has not.
Serving == response.n > 0 /\ response.op # "shutdown"

\* The startup event, when the server starts (again).
Startup ==
    /\ response.n < MaxRequests
    /\ ~Serving
    /\ \E preload \in BOOLEAN, build \in Builds :
          /\ response' = Handled("startup", "", BuildOnly(build), preload, 0, EmptyDict)
          /\ react_app' = startup_event(react_app, preload, build)
    /\ UNCHANGED <<question, query_type, currency, exchange_rates, text, annotated,
                   fetches, rates_calls, current_view, travel_data, user_query,
                   loading, call>>

\* The shutdown event.
Shutdown ==
    /\ response.n < MaxRequests
    /\ Serving
    /\ response' = Handled("shutdown", "", BuildOnly("ok"), FALSE, 0, EmptyDict)
    /\ react_app' = shutdown_event(react_app)
    /\ UNCHANGED <<question, query_type, currency, exchange_rates, text, annotated,
                   fetches, rates_calls, current_view, travel_data, user_query,
                   loading, call>>

\* One GET /health.
GetHealth ==
    /\ response.n < MaxRequests
    /\ Serving
    /\ \E build \in Builds :
          \E r \in {health_check(react_app, build)} :
              /\ response' = Handled("health", "", BuildOnly(build), TRUE,
                                     r.status, r.body)
              /\ react_app' = r.react_app
    /\ UNCHANGED <<question, query_type, currency, exchange_rates, text, annotated,
                   fetches, rates_calls, current_view, travel_data, user_query,
                   loading, call>>

\* One POST /query: the question of its body, _react_app when it came, what
\* the agent library did, and the status and body of the answer.
PostQuery ==
    /\ response.n < MaxRequests
    /\ Serving
    /\ \E q \in BackendQuestions, run \in BackendRuns :
          \E r \in {query_travel_agent(q, react_app, run)} :
              /\ response' = Handled("query", q, run, TRUE, r.status, r.body)
              /\ react_app' = r.react_app
    /\ UNCHANGED <<question, query_type, currency, exchange_rates, text, annotated,
                   fetches, rates_calls, current_view, travel_data, user_query,
                   loading, call>>

InitBackend ==
    /\ question = ""
    /\ query_type = "pending"
    /\ currency = "USD"
    /\ exchange_rates = EmptyTable
    /\ text = ""
    /\ annotated = <<>>
    /\ InitSession

NextBackend == Startup \/ Shutdown \/ GetHealth \/ PostQuery

SpecBackend == InitBackend /\ [][NextBackend]_vars

\* What makes a request fail: the agent cannot be built, invoke raises, or the
\* last message is empty or white space.
InitFails(r) == r.app = "None" /\ r.run.build = "fail"
AgentRaises(r) == ~InitFails(r) /\ r.run.invoke = "raise"
EmptyOutput(r) == ~InitFails(r) /\ r.run.invoke = "return" /\ Strip(r.run.output) = ""

IsSuccess(r) ==
    /\ r.status = 200
    /\ DOMAIN r.body = {"answer", "timestamp", "query_type"}
    /\ Strip(r.body.answer) # ""
    /\ r.body.timestamp # ""
    /\ r.body.query_type = determine_query_type(r.question)

IsFailure(r) ==
    /\ r.status = 500
    /\ DOMAIN r.body = {"error", "details", "timestamp"}
    /\ r.body.error # ""
    /\ r.body.details # ""
    /\ r.body.timestamp # ""

(***************************************************************************)
(* C20: a POST /query that has been handled got either a 200 with an       *)
(* answer that is not empty nor white space, a timestamp and the category  *)
(* determine_query_type gives for its question, or a 500 with error,       *)
(* details and timestamp; it got the 500 exactly when the agent could not  *)
(* be built, invoke raised, or the agent's output was empty or white       *)
(* space.                                                                  *)
(***************************************************************************)
C20_AnswerOrError ==
    (response.n > 0 /\ response.op = "query")
        => /\ IsSuccess(response) \/ IsFailure(response)
           /\ IsFailure(response)
                 <=> (InitFails(response) \/ AgentRaises(response)
                          \/ EmptyOutput(response))

\* A request that found the agent built has failed on an output of white
\* space.
C20_Witness ==
    /\ response.n > 1
    /\ response.op = "query"
    /\ response.app # "None"
    /\ response.run.invoke = "return"
    /\ response.run.output = " "
    /\ IsFailure(response)

(***************************************************************************)
(* C21: a GET /health that has been handled got a 200 or a 503: the 200    *)
(* exactly when _react_app holds the agent after it (it did before, or it  *)
(* was just built), the 503 exactly when the construction failed.          *)
(***************************************************************************)
C21_HealthyIffAgent ==
    (response.n > 0 /\ response.op = "health")
        => /\ response.status \in {200, 503}
           /\ response.status = 200 <=> react_app # "None"
           /\ response.status = 503 <=> InitFails(response)
           /\ "status" \in DOMAIN response.body

\* /health has answered 503 on a failed construction.
C21_Witness ==
    /\ response.n > 0
    /\ response.op = "health"
    /\ response.status = 503
    /\ response.run.build = "fail"
    /\ react_app = "None"

(***************************************************************************)
(* C27: while _react_app holds the agent no operation constructs one and   *)
(* each call of get_or_create_graph leaves it as it is; the shutdown event *)
(* unsets it; with _react_app unset a call of get_or_create_graph          *)
(* constructs: a failed construction leaves it unset, one that succeeds    *)
(* sets it, a graph that cannot be drawn or saved included.                *)
(***************************************************************************)
C27_BuiltOncePerInit ==
    response.n > 0
        => /\ response.app # "None" => ~response.constructs
           /\ (response.app # "None" /\ response.op # "shutdown")
                 => react_app = response.app
           /\ response.op = "shutdown" => react_app = "None"
           /\ (response.called /\ response.app = "None")
                 => /\ response.constructs
                    /\ response.run.build = "fail" => react_app = "None"
                    /\ response.run.build \in {"ok", "no_png"} => react_app # "None"
           /\ ~response.called => ~response.constructs

\* A request has found the agent an earlier operation built and has
\* constructed none.
C27_Witness ==
    /\ response.n > 2
    /\ response.op \in {"health", "query"}
    /\ response.app # "None"
    /\ ~response.constructs
    /\ react_app = response.app

(***************************************************************************)
(* The session: what a script run leaves and what the next one can do.     *)
(***************************************************************************)
\* The request of a content view has been made in this run and gave nothing
\* to show: the failure view is on the page.
ContentFailed ==
    /\ current_view \in ContentViews
    /\ ~loading
    /\ call.made
    /\ call.request_type = current_view
    /\ ~(/\ call.result # <<>>
         /\ Truthy(call.result[1])
         /\ Get(call.result[1], "answer", "") # "")

\* A script run that makes the request of the view on the page again.
RetrySameRequest ==
    /\ Next
    /\ call'.made
    /\ call'.request_type = current_view
    /\ call'.user_input = user_query

\* A script run that leaves the menu on the page.
BackToMenu ==
    /\ Next
    /\ current_view' = "menu"

(***************************************************************************)
(* C22: with the failure view of a content request on the page, the user   *)
(* can have the same request made again from that page, and can go back to *)
(* the menu.                                                               *)
(***************************************************************************)
C22_FailureOffersRetryAndMenu ==
    ContentFailed => (ENABLED RetrySameRequest /\ ENABLED BackToMenu)

(***************************************************************************)
(* The classifier on its own: every question of a bounded set is           *)
(* classified once.                                                        *)
(***************************************************************************)
MaxQuestionPieces == 3

QuestionPieces ==
    {"HOTEL", "stay", "Budget", "price", "climate", "Season", "other",
     "Option", " in Paris ", "st", "ay"}


Questions == Concats(QuestionPieces, MaxQuestionPieces) \cup {HotelCostQuestion}

InitClassify ==
    /\ question \in Questions
    /\ query_type = "pending"
    /\ currency = "USD"
    /\ exchange_rates = EmptyTable
    /\ text = ""
    /\ annotated = <<>>
    /\ InitSession

Classify ==
    /\ query_type = "pending"
    /\ query_type' = determine_query_type(question)
    /\ UNCHANGED <<question, response, currency, exchange_rates, text, annotated, fetches,
                   rates_calls, session>>

NextClassify == Classify

SpecClassify == InitClassify /\ [][NextClassify]_vars

(***************************************************************************)
(* C6: determine_query_type returns exactly one of the five categories     *)
(* for every question; the category is that of the first keyword set, in   *)
(* the order hotels, cost, weather, alternatives, with a keyword inside    *)
(* the lower-cased question, and the complete itinerary when no set has    *)
(* one.  "What's the hotel cost in Paris?" is classified hotels.           *)
(***************************************************************************)
C6_ClassifyPriority ==
    query_type # "pending" =>
        LET q == Lower(question)
            h == AnyKeyword(q, HotelKeywords)
            c == AnyKeyword(q, CostKeywords)
            w == AnyKeyword(q, WeatherKeywords)
            a == AnyKeyword(q, AlternativeKeywords)
        IN  /\ query_type \in QueryTypes
            /\ h => query_type = "hotels"
            /\ (~h /\ c) => query_type = "cost_breakdown"
            /\ (~h /\ ~c /\ w) => query_type = "weather"
            /\ (~h /\ ~c /\ ~w /\ a) => query_type = "alternatives"
            /\ (~h /\ ~c /\ ~w /\ ~a) => query_type = "complete_itinerary"
            /\ question = HotelCostQuestion => query_type = "hotels"

\* The example with a hotel keyword and a cost keyword has been classified.
C6_Witness ==
    /\ question = HotelCostQuestion
    /\ query_type = "hotels"
    /\ AnyKeyword(Lower(question), CostKeywords)

(***************************************************************************)
(* The rewritten question and the classifier: the question make_api_request *)
(* puts in the payload for a content view is classified by the backend.    *)
(***************************************************************************)
MaxUserPieces == 2

\* What user_query can hold: a text that is stripped and not blank.
UserTexts == {Strip(t) : t \in Concats(QuestionPieces, MaxUserPieces)} \ {""}

InitRewrite ==
    /\ user_query \in UserTexts
    /\ current_view \in ContentViews
    /\ loading = TRUE
    /\ travel_data = <<>>
    /\ call = NoCall
    /\ react_app = "None"
    /\ response = NoResponse
    /\ fetches = 0
    /\ rates_calls = <<>>
    /\ question = ""
    /\ query_type = "pending"
    /\ currency = "USD"
    /\ exchange_rates = EmptyTable
    /\ text = ""
    /\ annotated = <<>>

\* The payload of the request of the view, and line 144 of the backend on it.
SendQuestion ==
    /\ query_type = "pending"
    /\ question' = modified_query(user_query, current_view)
    /\ query_type' = determine_query_type(question')
    /\ UNCHANGED <<response, currency, exchange_rates, text, annotated, fetches,
                   rates_calls, session>>

NextRewrite == SendQuestion

SpecRewrite == InitRewrite /\ [][NextRewrite]_vars

(***************************************************************************)
(* C23: the backend's category for the rewritten question of a view is the *)
(* category of the view (cost_breakdown for cost) when the user's text has *)
(* no keyword of a set tested before that of the view, and otherwise the   *)
(* category of the first such set with a keyword in the user's text.       *)
(***************************************************************************)
C23_RewrittenQuestionCategory ==
    query_type # "pending" =>
        LET t == Lower(user_query)
            h == AnyKeyword(t, HotelKeywords)
            c == AnyKeyword(t, CostKeywords)
            w == AnyKeyword(t, WeatherKeywords)
        IN  /\ current_view = "hotels" => query_type = "hotels"
            /\ current_view = "cost"
                  => query_type = IF h THEN "hotels" ELSE "cost_breakdown"
            /\ current_view = "weather"
                  => query_type = IF h THEN "hotels"
                                  ELSE IF c THEN "cost_breakdown" ELSE "weather"
            /\ current_view = "alternatives"
                  => query_type = IF h THEN "hotels"
                                  ELSE IF c THEN "cost_breakdown"
                                  ELSE IF w THEN "weather" ELSE "alternatives"

\* The weather question of a text with a cost keyword and no hotel keyword
\* has been classified.
C23_Witness ==
    /\ query_type = "cost_breakdown"
    /\ current_view = "weather"
    /\ user_query = "Budget in Paris"

(***************************************************************************)
(* C24: at the start of every script run current_view is one of the seven  *)
(* views, and loading is set only in a content view.                       *)
(***************************************************************************)
C24_ViewAndLoading ==
    /\ current_view \in {"main", "menu", "complete", "hotels", "cost", "weather",
                         "alternatives"}
    /\ loading => current_view \in {"complete", "hotels", "cost", "weather",
                                    "alternatives"}

\* A run starts in the weather view with loading set.
C24_Witness ==
    /\ current_view = "weather"
    /\ loading

(***************************************************************************)
(* C25: a menu button sets loading and makes no request; the run that      *)
(* finds loading set in a content view makes one call of make_api_request, *)
(* for that view and the user's query, and leaves loading unset and the    *)
(* view as it is whatever the call gave; a run that finds loading unset in *)
(* a content view makes no call and goes to the menu.                      *)
(***************************************************************************)
C25_OneRequestPerSelection ==
    [][/\ (current_view = "menu" /\ current_view' \in ContentViews)
             => (loading' /\ ~call'.made)
       /\ (current_view \in ContentViews /\ loading)
             => /\ call'.made
                /\ call'.attempts = 1
                /\ call'.request_type = current_view
                /\ call'.user_input = user_query
                /\ ~loading'
                /\ current_view' = current_view
       /\ (current_view \in ContentViews /\ ~loading)
             => /\ ~call'.made
                /\ ~loading'
                /\ current_view' = "menu"]_vars

\* The request of a content view has failed and loading is unset.
C25_Witness ==
    /\ current_view = "hotels"
    /\ ~loading
    /\ call.made
    /\ call.request_type = "hotels"
    /\ call.result = <<>>

(***************************************************************************)
(* C26: a run of the main view that submits a query leaves that query,     *)
(* stripped and not blank, in user_query and the menu on the page whatever *)
(* the request gave; travel_data is the answer of the object the request   *)
(* returned, and is as it was when the request returned none; currency,    *)
(* exchange_rates and loading are as they were.                            *)
(***************************************************************************)
C26_SubmitFrame ==
    [][(current_view = "main" /\ call'.made)
          => /\ user_query' = call'.user_input
             /\ Strip(user_query') = user_query'
             /\ user_query' # ""
             /\ call'.request_type = "complete"
             /\ current_view' = "menu"
             /\ call'.result = <<>> => travel_data' = travel_data
             /\ travel_data' # travel_data
                   => /\ call'.result # <<>>
                      /\ travel_data' = <<Get(call'.result[1], "answer", "")>>
             /\ currency' = currency
             /\ exchange_rates' = exchange_rates
             /\ loading' = loading]_vars

\* A query has been submitted, the request failed, and the menu is on the
\* page with no travel data.
C26_Witness ==
    /\ current_view = "menu"
    /\ call.made
    /\ call.request_type = "complete"
    /\ call.result = <<>>
    /\ user_query = call.user_input
    /\ travel_data = <<>>

=============================================================================
